---- MODULE Spec2Model ----
(***************************************************************************)
(* A model of the file-per-record JSON store of src/main.go: one Driver    *)
(* over a root directory, called concurrently by several goroutines.       *)
(*                                                                         *)
(* Names are sequences of tokens: the resource "a" is <<"a">> and the file *)
(* "a.json.tmp" is <<"a", "json", "tmp">>, so appending ".json" or ".tmp"  *)
(* is Append and the empty string is <<>>.  A path below the root is the   *)
(* sequence of its non-empty elements: <<>> is the root directory itself,  *)
(* <<c>> a collection directory and <<c, n>> a file in it.                 *)
(*                                                                         *)
(* Every filesystem call and every lock operation is one step, so          *)
(* goroutines interleave between them exactly as the code allows.  The     *)
(* calls of Write's path (MkdirAll, WriteFile, Rename) may fail for        *)
(* reasons of the filesystem's own; stat, read and remove calls answer     *)
(* from what the filesystem holds.                                         *)
(***************************************************************************)
EXTENDS Integers, Sequences, FiniteSets, TLC

\* ---------------------------------------------------------------- bounds
\* Calls made in one behaviour, over all goroutines.
MaxOps == 2

Threads == {"t1", "t2"}

Collections == {<<>>, <<"c1">>, <<"c2">>}
Resources   == {<<>>, <<"a">>, <<"a", "json">>}
\* "bad" stands for a value json.Marshal rejects (a channel, a func).
Values      == {"v1", "v2", "bad"}

\* The nil *sync.Mutex; instances are numbered from 1.
NoMutex == 0
\* A path outside the store, which nothing ever creates.
Outside == <<<<"..">>>>

VARIABLES
    fs,        \* the filesystem below (and including) d.dir: path -> Dir or bytes
    dmutex,    \* d.mutex is locked
    mutexes,   \* d.mutexes: collection name -> *sync.Mutex (an instance number)
    locked,    \* the *sync.Mutex instances that are locked
    nextId,    \* instances allocated so far
    pc,        \* each goroutine's position
    call,      \* each goroutine's current call: op, collection, resource, v
    mtx,       \* each goroutine's local m / mutex
    tgt,       \* Delete: the path handed to os.RemoveAll
    lst,       \* ReadAll: the directory entries still to read
    recs,      \* ReadAll: records
    ret,       \* what the step that led here returned, to the goroutine it returned to
    ops,       \* calls made so far
    lastWrite, \* history: the Write that returned nil with nothing else called since
    dropped,   \* history: collections removed by Delete(c, "") with no Write to c since
    lastLock,  \* history: record -> of the Writes of it in progress together, the last to lock
    fresh,     \* history: collections that only successful Writes of distinct names touched
    written,   \* history: the <<collection, resource, v>> of those Writes
    alone      \* history: a ReadAll is running that was called with nothing in progress

vars == <<fs, dmutex, mutexes, locked, nextId, pc, call, mtx, tgt, lst, recs, ret,
          ops, lastWrite, dropped, lastLock, fresh, written, alone>>

\* ------------------------------------------------------------ pure helpers
\* What fs holds for a directory (a file holds its bytes, a sequence).
Dir == <<"dir">>

Json == "json"
Tmp  == "tmp"

\* filepath.Join(d.dir, elems...): empty elements are ignored.
Join(collection, resource) ==
    SelectSeq(<<collection, resource>>, LAMBDA e : e # <<>>)

\* path + ext, a string concatenation on the joined path: it extends the last
\* element, and on the root itself it names a sibling of the root.
AddExt(path, ext) ==
    IF path = <<>> THEN Outside
    ELSE [path EXCEPT ![Len(path)] = Append(@, ext)]

\* resourse + ".json" joined under dir.
FnlPath(collection, resource) == Join(collection, Append(resource, Json))

\* tmpPath := fnlPath + ".tmp"; the variant writes the record in place.
TmpPathInPlace(fnlPath) == fnlPath
TmpPath(fnlPath) == AddExt(fnlPath, Tmp)

\* json.Marshal: the bytes of an encodable value.
Marshal(v) == <<"{", v, "}">>
Encodable(v) == v # "bad"
\* b = append(b, '\n')
FileBytes(v) == Append(Marshal(v), "\n")

\* json.Unmarshal: well-formed input (trailing white space allowed) or an error.
WellFormed(b) ==
    /\ Len(b) \in {3, 4}
    /\ b[1] = "{" /\ b[3] = "}"
    /\ Len(b) = 4 => b[4] = "\n"
Unmarshal(b) == IF WellFormed(b) THEN [kind |-> "ok", val |-> <<b[2]>>]
                ELSE [kind |-> "DecodingError", val |-> <<>>]

Prefixes(b) == {SubSeq(b, 1, k) : k \in 0..(Len(b) - 1)}

Exists(f, path) == path \in DOMAIN f
IsDir(f, path)  == Exists(f, path) /\ f[path] = Dir
IsRegular(f, path) == Exists(f, path) /\ f[path] # Dir

IsPrefix(p, q) == Len(p) <= Len(q) /\ SubSeq(q, 1, Len(p)) = p

Restrict(f, S) == [p \in S |-> f[p]]

\* os.RemoveAll(path): the path and everything below it; nil if it is absent.
RemoveAll(f, path) == Restrict(f, {p \in DOMAIN f : ~IsPrefix(path, p)})

\* os.MkdirAll(dir): the directory and its missing parents.
MkdirAll(f, dir) ==
    LET need == {SubSeq(dir, 1, k) : k \in 0..Len(dir)} \ DOMAIN f
    IN  [p \in DOMAIN f \cup need |-> IF p \in DOMAIN f THEN f[p] ELSE Dir]

PutFile(f, path, bytes) ==
    [p \in DOMAIN f \cup {path} |-> IF p = path THEN bytes ELSE f[p]]

\* A rename that leaves the old name in place, as a copy would.
RenameKeepsOld(f, old, new) ==
    [p \in DOMAIN f \cup {new} |-> IF p = new THEN f[old] ELSE f[p]]

\* os.Rename(old, new) of a file within one directory.
Rename(f, old, new) ==
    [p \in (DOMAIN f \ {old}) \cup {new} |-> IF p = new THEN f[old] ELSE f[p]]

Parent(path) == SubSeq(path, 1, Len(path) - 1)

\* stat: os.Stat(path), and on not-exist os.Stat(path + ".json").  The result is
\* the path that answered, or Outside (never present) for an error.
Stat(f, path) ==
    IF Exists(f, path) THEN path
    ELSE IF Exists(f, AddExt(path, Json)) THEN AddExt(path, Json)
    ELSE Outside

\* The switch of Delete on stat's result; the variant has no first case.
DeleteCaseNoCheck(f, path) ==
    IF IsDir(f, Stat(f, path)) THEN "dir" ELSE "regular"
DeleteCase(f, path) ==
    IF Stat(f, path) = Outside THEN "notfound"
    ELSE IF IsDir(f, Stat(f, path)) THEN "dir"
    ELSE "regular"

\* What Delete removes in each case; the variant has the file case only.
DeleteTargetFileOnly(kind, path) == AddExt(path, Json)
DeleteTarget(kind, path) ==
    IF kind = "dir" THEN path ELSE AddExt(path, Json)

\* ioutil.ReadDir sorts by file name: byte order on the names.
TokRank(tok) ==
    CASE tok = "a" -> 1 [] tok = "b" -> 2 [] tok = "c1" -> 3 [] tok = "c2" -> 4
      [] tok = Json -> 5 [] tok = Tmp -> 6 [] OTHER -> 7

RECURSIVE NameLess(_, _)
NameLess(a, b) ==
    IF a = <<>> THEN b # <<>>
    ELSE IF b = <<>> THEN FALSE
    ELSE IF Head(a) # Head(b) THEN TokRank(Head(a)) < TokRank(Head(b))
    ELSE NameLess(Tail(a), Tail(b))

RECURSIVE Sorted(_)
Sorted(S) ==
    IF S = {} THEN <<>>
    ELSE LET m == CHOOSE x \in S : \A y \in S \ {x} : NameLess(x, y)
         IN  <<m>> \o Sorted(S \ {m})

\* A listing that stops after the first entry.
ReadDirFirst(f, dir) ==
    LET all == Sorted({p[Len(p)] : p \in {q \in DOMAIN f : Len(q) = Len(dir) + 1 /\ IsPrefix(dir, q)}})
    IN  IF all = <<>> THEN <<>> ELSE <<Head(all)>>

\* The entries of a directory, as ReadDir lists them.
ReadDir(f, dir) ==
    Sorted({p[Len(p)] : p \in {q \in DOMAIN f : Len(q) = Len(dir) + 1 /\ IsPrefix(dir, q)}})

\* The key of d.mutexes[collection]; the variant keeps one Lock for all.
LockKeyGlobal(collection) == <<>>
LockKey(collection) == collection

\* m, ok := d.mutexes[collection]; the variant never finds an entry.
FoundNever(m, collection) == FALSE
Found(m, collection) == LockKey(collection) \in DOMAIN m

\* d.mutex.Lock() can return; the variant does not wait.
TableLockAlways(held) == TRUE
TableLockFree(held) == ~held

\* The argument checks that open Write, Read and ReadAll; the variant checks
\* the collection only.
InvalidKeysCollectionOnly(op, collection, resource) ==
    op \in {"Write", "Read", "ReadAll"} /\ collection = <<>>
InvalidKeys(op, collection, resource) ==
    \/ op \in {"Write", "Read", "ReadAll"} /\ collection = <<>>
    \/ op \in {"Write", "Read"} /\ resource = <<>>

\* New: os.Stat(dir) returned no error; the variant never finds the root.
RootExistsNever(f) == FALSE
RootExists(f) == Exists(f, <<>>)

\* Where each operation goes on after its checks: Write to the Lock of its
\* collection, Read and ReadAll straight to the filesystem; in the variant
\* ReadAll takes the Lock too.
AfterCheckLocked(op) ==
    CASE op = "Write" -> "gm_lock" [] op = "Read" -> "r_stat" [] op = "ReadAll" -> "gm_lock"
AfterCheck(op) ==
    CASE op = "Write" -> "gm_lock" [] op = "Read" -> "r_stat" [] op = "ReadAll" -> "ra_stat"

\* d.mutex after the deferred d.mutex.Unlock(); the variant has no defer.
TableUnlockForgotten(held) == held
TableUnlock(held) == FALSE

NoCall == [op |-> "none", collection |-> <<>>, resource |-> <<>>, v |-> "v1"]

Err(k) == [kind |-> k, val |-> <<>>]
Ok     == [kind |-> "ok", val |-> <<>>]
NoRet  == [t \in Threads |-> Err("none")]

\* ----------------------------------------------------------------- state
\* New reuses a root that exists and creates one that does not: the store starts
\* empty, or with the records an earlier run of the program has written.
\* lastLock when no Write has locked.
NoLocks == [k \in {} |-> <<>>]

EmptyStore == (<<>> :> Dir)
UsedStore ==
    (<<>> :> Dir) @@ (<<<<"c1">>>> :> Dir) @@ (<<<<"c2">>>> :> Dir)
    @@ (<<<<"c1">>, <<"a", Json>>>> :> FileBytes("v1"))
    @@ (<<<<"c2">>, <<"a", Json>>>> :> FileBytes("v2"))
\* The Writes that made UsedStore of EmptyStore.
UsedWrites == {<<<<"c1">>, <<"a">>, "v1">>, <<<<"c2">>, <<"a">>, "v2">>}

Init ==
    /\ fs \in {EmptyStore, UsedStore}
    /\ dmutex = FALSE
    /\ mutexes = <<>>
    /\ locked = {}
    /\ nextId = 0
    /\ pc = [t \in Threads |-> "idle"]
    /\ call = [t \in Threads |-> NoCall]
    /\ mtx = [t \in Threads |-> NoMutex]
    /\ tgt = [t \in Threads |-> Outside]
    /\ lst = [t \in Threads |-> <<>>]
    /\ recs = [t \in Threads |-> <<>>]
    /\ ret = NoRet
    /\ ops = 0
    /\ lastWrite = <<>>
    /\ dropped = {}
    /\ lastLock = NoLocks
    /\ fresh = Collections \ {<<>>}
    /\ written = IF fs = UsedStore THEN UsedWrites ELSE {}
    /\ alone = FALSE

\* ------------------------------------------------------------- the callers
Active(t) == pc[t] # "idle"
OthersIdle(t) == \A u \in Threads \ {t} : ~Active(u)

\* Whether a Read of (collection, resource) asks for the record of lastWrite,
\* under its bare name or with the extension.
ReadsLast(collection, resource) ==
    /\ lastWrite # <<>>
    /\ collection = lastWrite[1]
    /\ resource \in {lastWrite[2], Append(lastWrite[2], Json)}

\* The collections cs are fresh no longer, and their Writes are forgotten.
Spoils(cs) ==
    /\ fresh' = fresh \ cs
    /\ written' = {w \in written : w[1] \notin cs}

\* The record that the Write of t names, as lastLock knows it.
Record(t) == <<call[t].collection, call[t].resource>>

\* lastLock without the record k.
Forget(k) == [j \in DOMAIN lastLock \ {k} |-> lastLock[j]]

\* The Write of t failed.
WriteFailed(t) ==
    /\ lastLock' = Forget(Record(t))
    /\ Spoils({call[t].collection})

\* Some other goroutine's call is op.
OtherCalls(t, op) == \E u \in Threads \ {t} : call[u].op = op

\* Some other goroutine is in a Write of the record <<c, r>>.
OtherWrites(t, c, r) ==
    \E u \in Threads \ {t} :
        call[u].op = "Write" /\ call[u].collection = c /\ call[u].resource = r

\* Some other goroutine is in, or was the last to take the Lock for, a Write of
\* another value to the record that t writes.
Contested(t) ==
    \/ \E u \in Threads \ {t} : call[u].op = "Write" /\ Record(u) = Record(t)
                                  /\ call[u].v # call[t].v
    \/ /\ Record(t) \in DOMAIN lastLock
       /\ lastLock[Record(t)][1] # call[t].v

\* A goroutine calls an operation of the Driver.
Call(t) ==
    /\ pc[t] = "idle"
    /\ ops < MaxOps
    /\ \E op \in {"Write", "Read", "ReadAll", "Delete", "New"}, c \in Collections,
          r \in Resources, v \in Values :
        /\ op # "Write" => v = "v1"
        /\ op = "ReadAll" => r = <<>>
        /\ op = "New" => (c = <<>> /\ r = <<>>)
        /\ call' = [call EXCEPT ![t] = [op |-> op, collection |-> c, resource |-> r, v |-> v]]
        /\ pc' = [pc EXCEPT ![t] = CASE op = "Delete" -> "gm_lock"
                                     [] op = "New"    -> "n_stat"
                                     [] OTHER         -> "entry"]
        /\ lastWrite' = IF op = "Read" /\ ReadsLast(c, r) THEN lastWrite ELSE <<>>
        /\ dropped' = IF op = "Write" THEN dropped \ {c} ELSE dropped
        /\ lastLock' = IF op = "Delete" THEN NoLocks
                       ELSE IF op = "Write" /\ ~OtherWrites(t, c, r) THEN Forget(<<c, r>>)
                       ELSE lastLock
        /\ IF op = "Delete"
           THEN Spoils(IF c = <<>> THEN Collections ELSE {c})
           ELSE UNCHANGED <<fresh, written>>
        /\ alone' = (op = "ReadAll" /\ OthersIdle(t))
    /\ ops' = ops + 1
    /\ ret' = NoRet
    /\ UNCHANGED <<fs, dmutex, mutexes, locked, nextId, mtx, tgt, lst, recs>>

\* return: the goroutine is idle again and its caller has what the call returned.
Return(t, r) ==
    /\ pc' = [pc EXCEPT ![t] = "idle"]
    /\ ret' = [NoRet EXCEPT ![t] = r]
    /\ call' = [call EXCEPT ![t] = NoCall]

\* The call goes on at position p.
Goto(t, p) ==
    /\ pc' = [pc EXCEPT ![t] = p]
    /\ ret' = NoRet
    /\ call' = call

\* Write, Read, ReadAll: the checks of the keys (lines 65-70, 99-105, 123-125).
Entry(t) ==
    /\ pc[t] = "entry"
    /\ IF InvalidKeys(call[t].op, call[t].collection, call[t].resource)
       THEN Return(t, Err("InvalidArgument"))
       ELSE Goto(t, AfterCheck(call[t].op))
    /\ IF call[t].op = "Write" /\ InvalidKeys(call[t].op, call[t].collection, call[t].resource)
       THEN WriteFailed(t)
       ELSE UNCHANGED <<lastLock, fresh, written>>
    /\ alone' = (alone /\ pc'[t] # "idle")
    /\ UNCHANGED <<fs, dmutex, mutexes, locked, nextId, mtx, tgt, lst, recs,
                   ops, lastWrite, dropped>>

\* -------------------------------------------------------------------- New
\* New(dir, options) called again on the root of the store.  The Driver it
\* returns is another object with a lock table of its own; the goroutines here
\* go on calling the first.
\* if _, err := os.Stat(dir); err == nil { return driver, nil }
NStat(t) ==
    /\ pc[t] = "n_stat"
    /\ IF RootExists(fs)
       THEN Return(t, Ok)
       ELSE Goto(t, "n_mkdir")
    /\ UNCHANGED <<fs, dmutex, mutexes, locked, nextId, mtx, tgt, lst, recs,
                   ops, lastWrite, dropped,
                   lastLock, fresh, written, alone>>

\* return driver, os.MkdirAll(dir, 0755)
NMkdir(t) ==
    /\ pc[t] = "n_mkdir"
    /\ \E fail \in BOOLEAN :
         IF fail
         THEN fs' = fs /\ Return(t, Err("IOError"))
         ELSE fs' = MkdirAll(fs, <<>>) /\ Return(t, Ok)
    /\ UNCHANGED <<dmutex, mutexes, locked, nextId, mtx, tgt, lst, recs,
                   ops, lastWrite, dropped,
                   lastLock, fresh, written, alone>>

\* ------------------------------------------------- getOrCreateNewMutex
\* d.mutex.Lock()
GmLock(t) ==
    /\ pc[t] = "gm_lock"
    /\ TableLockFree(dmutex)
    /\ dmutex' = TRUE
    /\ Goto(t, "gm_lookup")
    /\ UNCHANGED <<fs, mutexes, locked, nextId, mtx, tgt, lst, recs,
                   ops, lastWrite, dropped,
                   lastLock, fresh, written, alone>>

\* m, ok := d.mutexes[collection]
GmLookup(t) ==
    /\ pc[t] = "gm_lookup"
    /\ IF Found(mutexes, call[t].collection)
       THEN /\ mtx' = [mtx EXCEPT ![t] = mutexes[LockKey(call[t].collection)]]
            /\ Goto(t, "gm_unlock")
       ELSE /\ mtx' = [mtx EXCEPT ![t] = NoMutex]
            /\ Goto(t, "gm_new")
    /\ UNCHANGED <<fs, dmutex, mutexes, locked, nextId, tgt, lst, recs,
                   ops, lastWrite, dropped,
                   lastLock, fresh, written, alone>>

\* m = &sync.Mutex{}; d.mutexes[collection] = m
GmNew(t) ==
    /\ pc[t] = "gm_new"
    /\ nextId' = nextId + 1
    /\ mtx' = [mtx EXCEPT ![t] = nextId + 1]
    /\ mutexes' = [k \in DOMAIN mutexes \cup {LockKey(call[t].collection)} |->
                     IF k = LockKey(call[t].collection) THEN nextId + 1 ELSE mutexes[k]]
    /\ Goto(t, "gm_unlock")
    /\ UNCHANGED <<fs, dmutex, locked, tgt, lst, recs, ops, lastWrite, dropped,
                   lastLock, fresh, written, alone>>

\* defer d.mutex.Unlock(); return m
GmUnlock(t) ==
    /\ pc[t] = "gm_unlock"
    /\ dmutex' = TableUnlock(dmutex)
    /\ Goto(t, "lock")
    /\ UNCHANGED <<fs, mutexes, locked, nextId, mtx, tgt, lst, recs,
                   ops, lastWrite, dropped,
                   lastLock, fresh, written, alone>>

\* mutex.Lock() of Write and of Delete
Lock(t) ==
    /\ pc[t] = "lock"
    /\ mtx[t] \notin locked
    /\ locked' = locked \cup {mtx[t]}
    /\ Goto(t, IF call[t].op = "Write" THEN "w_mkdir" ELSE "d_stat")
    /\ lastLock' = IF call[t].op # "Write" THEN lastLock
                   ELSE IF OtherCalls(t, "Delete") THEN Forget(Record(t))
                   ELSE [k \in DOMAIN lastLock \cup {Record(t)} |->
                           IF k = Record(t) THEN <<call[t].v, Contested(t)>> ELSE lastLock[k]]
    /\ UNCHANGED <<fs, dmutex, mutexes, nextId, mtx, tgt, lst, recs,
                   ops, lastWrite, dropped, fresh, written, alone>>

\* A return that runs no deferred mutex.Unlock().
UnlockForgotten(t) ==
    /\ locked' = locked
    /\ mtx' = [mtx EXCEPT ![t] = NoMutex]

\* defer mutex.Unlock(), run by every return of Write and of Delete
Unlock(t) ==
    /\ locked' = locked \ {mtx[t]}
    /\ mtx' = [mtx EXCEPT ![t] = NoMutex]

KeepLock == UNCHANGED <<locked, mtx>>

\* ------------------------------------------------------------------ Write
WDir(t) == Join(call[t].collection, <<>>)
WFnl(t) == FnlPath(call[t].collection, call[t].resource)
WTmp(t) == TmpPath(WFnl(t))

\* os.MkdirAll(dir, 0755), then json.Marshal(v)
WMkdir(t) ==
    /\ pc[t] = "w_mkdir"
    /\ \E fail \in BOOLEAN :
         IF fail
         THEN /\ fs' = fs
              /\ Unlock(t)
              /\ Return(t, Err("IOError"))
              /\ WriteFailed(t)
         ELSE /\ fs' = MkdirAll(fs, WDir(t))
              /\ IF Encodable(call[t].v)
                 THEN Goto(t, "w_open") /\ KeepLock
                      /\ UNCHANGED <<lastLock, fresh, written>>
                 ELSE Unlock(t) /\ Return(t, Err("EncodingError"))
                      /\ WriteFailed(t)
    /\ UNCHANGED <<dmutex, mutexes, nextId, tgt, lst, recs, ops, lastWrite, dropped, alone>>

\* ioutil.WriteFile(tmpPath, b, 0644): the open with O_CREATE|O_TRUNC
WOpen(t) ==
    /\ pc[t] = "w_open"
    /\ \E fail \in BOOLEAN :
         IF fail \/ ~IsDir(fs, Parent(WTmp(t)))
         THEN /\ fs' = fs
              /\ Unlock(t)
              /\ Return(t, Err(IF IsDir(fs, Parent(WTmp(t))) THEN "IOError" ELSE "NotFound"))
              /\ WriteFailed(t)
         ELSE /\ fs' = PutFile(fs, WTmp(t), <<>>)
              /\ Goto(t, "w_write")
              /\ KeepLock
              /\ UNCHANGED <<lastLock, fresh, written>>
    /\ UNCHANGED <<dmutex, mutexes, nextId, tgt, lst, recs, ops, lastWrite, dropped, alone>>

\* ioutil.WriteFile(tmpPath, b, 0644): the write and the close.  A failed write
\* leaves a proper prefix of b; a file unlinked meanwhile stays unlinked.
WWrite(t) ==
    /\ pc[t] = "w_write"
    /\ \/ /\ fs' = IF Exists(fs, WTmp(t)) THEN PutFile(fs, WTmp(t), FileBytes(call[t].v))
                   ELSE fs
          /\ Goto(t, "w_rename")
          /\ KeepLock
          /\ UNCHANGED <<lastLock, fresh, written>>
       \/ /\ \E part \in Prefixes(FileBytes(call[t].v)) :
               fs' = IF Exists(fs, WTmp(t)) THEN PutFile(fs, WTmp(t), part) ELSE fs
          /\ Unlock(t)
          /\ Return(t, Err("IOError"))
          /\ WriteFailed(t)
    /\ UNCHANGED <<dmutex, mutexes, nextId, tgt, lst, recs, ops, lastWrite, dropped, alone>>

\* return os.Rename(tmpPath, fnlPath)
WRename(t) ==
    /\ pc[t] = "w_rename"
    /\ \E fail \in BOOLEAN :
         IF fail \/ ~Exists(fs, WTmp(t))
         THEN /\ fs' = fs
              /\ Return(t, Err(IF Exists(fs, WTmp(t)) THEN "IOError" ELSE "NotFound"))
              /\ lastWrite' = lastWrite
              /\ WriteFailed(t)
         ELSE /\ fs' = Rename(fs, WTmp(t), WFnl(t))
              /\ Return(t, Ok)
              /\ lastWrite' = IF OthersIdle(t)
                              THEN <<call[t].collection, call[t].resource, call[t].v>>
                              ELSE <<>>
              /\ lastLock' = lastLock
              /\ IF /\ call[t].collection \in fresh
                    /\ \A w \in written :
                          ~(w[1] = call[t].collection /\ w[2] = call[t].resource)
                 THEN /\ written' = written \cup
                                      {<<call[t].collection, call[t].resource, call[t].v>>}
                      /\ fresh' = fresh
                 ELSE Spoils({call[t].collection})
    /\ Unlock(t)
    /\ UNCHANGED <<dmutex, mutexes, nextId, tgt, lst, recs, ops, dropped, alone>>

\* ----------------------------------------------------------------- Delete
DPath(t) == Join(call[t].collection, call[t].resource)

WritingTo(c) ==
    \E u \in Threads : call[u].op = "Write" /\ call[u].collection = c

\* switch fi, err := stat(path)
DStat(t) ==
    /\ pc[t] = "d_stat"
    /\ LET kind == DeleteCase(fs, DPath(t))
       IN  IF kind = "notfound"
           THEN /\ Unlock(t)
                /\ Return(t, Err("NotFound"))
                /\ tgt' = tgt
           ELSE /\ tgt' = [tgt EXCEPT ![t] = DeleteTarget(kind, DPath(t))]
                /\ Goto(t, "d_remove")
                /\ KeepLock
    /\ UNCHANGED <<fs, dmutex, mutexes, nextId, lst, recs, ops, lastWrite, dropped,
                   lastLock, fresh, written, alone>>

\* return os.RemoveAll(path) / os.RemoveAll(path + ".json")
DRemove(t) ==
    /\ pc[t] = "d_remove"
    /\ fs' = RemoveAll(fs, tgt[t])
    /\ tgt' = [tgt EXCEPT ![t] = Outside]
    /\ Unlock(t)
    /\ Return(t, Ok)
    /\ dropped' = IF /\ call[t].resource = <<>>
                     /\ call[t].collection # <<>>
                     /\ tgt[t] = <<call[t].collection>>
                     /\ ~WritingTo(call[t].collection)
                  THEN dropped \cup {call[t].collection}
                  ELSE dropped
    /\ UNCHANGED <<dmutex, mutexes, nextId, lst, recs, ops, lastWrite,
                   lastLock, fresh, written, alone>>

\* ------------------------------------------------------------------- Read
RRecord(t) == Join(call[t].collection, call[t].resource)

\* if _, err := os.Stat(record); os.IsNotExist(err) { return err }
RStat(t) ==
    /\ pc[t] = "r_stat"
    /\ IF Exists(fs, RRecord(t))
       THEN Goto(t, "r_read")
       ELSE Return(t, Err("NotFound"))
    /\ UNCHANGED <<fs, dmutex, mutexes, locked, nextId, mtx, tgt, lst, recs,
                   ops, lastWrite, dropped,
                   lastLock, fresh, written, alone>>

\* b, err := ioutil.ReadFile(record + ".json"); return json.Unmarshal(b, v)
RRead(t) ==
    /\ pc[t] = "r_read"
    /\ LET file == AddExt(RRecord(t), Json)
       IN  Return(t, IF ~Exists(fs, file) THEN Err("NotFound")
                     ELSE IF IsDir(fs, file) THEN Err("IOError")
                     ELSE Unmarshal(fs[file]))
    /\ UNCHANGED <<fs, dmutex, mutexes, locked, nextId, mtx, tgt, lst, recs,
                   ops, lastWrite, dropped,
                   lastLock, fresh, written, alone>>

\* ---------------------------------------------------------------- ReadAll
RaDir(t) == Join(call[t].collection, <<>>)

\* if _, err := stat(dir); err != nil { return nil, err }
RaStat(t) ==
    /\ pc[t] = "ra_stat"
    /\ IF Stat(fs, RaDir(t)) = Outside
       THEN Return(t, Err("NotFound"))
       ELSE Goto(t, "ra_readdir")
    /\ UNCHANGED <<fs, dmutex, mutexes, locked, nextId, mtx, tgt, lst, recs,
                   ops, lastWrite, dropped,
                   lastLock, fresh, written>>
    /\ alone' = (alone /\ pc'[t] # "idle")

\* files, err := ioutil.ReadDir(dir)
RaReadDir(t) ==
    /\ pc[t] = "ra_readdir"
    /\ IF ~IsDir(fs, RaDir(t))
       THEN /\ Return(t, Err(IF Exists(fs, RaDir(t)) THEN "IOError" ELSE "NotFound"))
            /\ lst' = lst
       ELSE IF ReadDir(fs, RaDir(t)) = <<>>
       THEN /\ Return(t, [kind |-> "ok", val |-> <<>>])
            /\ lst' = lst
       ELSE /\ lst' = [lst EXCEPT ![t] = ReadDir(fs, RaDir(t))]
            /\ Goto(t, "ra_readfile")
    /\ UNCHANGED <<fs, dmutex, mutexes, locked, nextId, mtx, tgt, recs,
                   ops, lastWrite, dropped,
                   lastLock, fresh, written>>
    /\ alone' = (alone /\ pc'[t] # "idle")

\* one turn of the loop: ioutil.ReadFile(filepath.Join(dir, file.Name()))
RaReadFile(t) ==
    /\ pc[t] = "ra_readfile"
    /\ LET file == Append(RaDir(t), Head(lst[t]))
       IN  IF ~IsRegular(fs, file)
           THEN /\ Return(t, Err(IF Exists(fs, file) THEN "IOError" ELSE "NotFound"))
                /\ lst' = [lst EXCEPT ![t] = <<>>]
                /\ recs' = [recs EXCEPT ![t] = <<>>]
           ELSE IF Len(lst[t]) = 1
           THEN /\ Return(t, [kind |-> "ok", val |-> Append(recs[t], fs[file])])
                /\ lst' = [lst EXCEPT ![t] = <<>>]
                /\ recs' = [recs EXCEPT ![t] = <<>>]
           ELSE /\ recs' = [recs EXCEPT ![t] = Append(@, fs[file])]
                /\ lst' = [lst EXCEPT ![t] = Tail(@)]
                /\ ret' = NoRet
                /\ UNCHANGED <<pc, call>>
    /\ UNCHANGED <<fs, dmutex, mutexes, locked, nextId, mtx, tgt,
                   ops, lastWrite, dropped,
                   lastLock, fresh, written>>
    /\ alone' = (alone /\ pc'[t] # "idle")

\* ------------------------------------------------------------- the system
Next ==
    \E t \in Threads :
        \/ Call(t)
        \/ Entry(t)
        \/ NStat(t)
        \/ NMkdir(t)
        \/ GmLock(t)
        \/ GmLookup(t)
        \/ GmNew(t)
        \/ GmUnlock(t)
        \/ Lock(t)
        \/ WMkdir(t)
        \/ WOpen(t)
        \/ WWrite(t)
        \/ WRename(t)
        \/ DStat(t)
        \/ DRemove(t)
        \/ RStat(t)
        \/ RRead(t)
        \/ RaStat(t)
        \/ RaReadDir(t)
        \/ RaReadFile(t)

Spec == Init /\ [][Next]_vars

\* The steps of a call that goroutine t has made.
Run(t) ==
    \/ Entry(t)
    \/ NStat(t)
    \/ NMkdir(t)
    \/ GmLock(t)
    \/ GmLookup(t)
    \/ GmNew(t)
    \/ GmUnlock(t)
    \/ Lock(t)
    \/ WMkdir(t)
    \/ WOpen(t)
    \/ WWrite(t)
    \/ WRename(t)
    \/ DStat(t)
    \/ DRemove(t)
    \/ RStat(t)
    \/ RRead(t)
    \/ RaStat(t)
    \/ RaReadDir(t)
    \/ RaReadFile(t)

\* The Go scheduler runs every goroutine that can run, and every call to the
\* filesystem returns; nothing obliges a goroutine to make another call.
FairSpec == Spec /\ \A t \in Threads : WF_vars(Run(t))

\* ----------------------------------------------------------- vocabulary
\* Inside the section between mutex.Lock() and the deferred mutex.Unlock().
InCS(t) == pc[t] \in {"w_mkdir", "w_open", "w_write", "w_rename", "d_stat", "d_remove"}

Mutating(t) == call[t].op \in {"Write", "Delete"}

\* t takes a step.
Steps(t) == pc'[t] # pc[t] \/ lst'[t] # lst[t]

\* t returns in this step.
Returns(t) == pc[t] # "idle" /\ pc'[t] = "idle"

\* A final record file <resource>.json, as opposed to <resource>.json.tmp.
IsRecordPath(p) == Len(p) = 2 /\ p[2] # <<>> /\ p[2][Len(p[2])] = Json
IsTmpPath(p)    == Len(p) = 2 /\ p[2] # <<>> /\ p[2][Len(p[2])] = Tmp

Complete(bytes) == \E v \in Values : Encodable(v) /\ bytes = FileBytes(v)

\* ------------------------------------------------------------------ C1
\* C1: after a Write(c, r, v) that returned nil, with no other call since, a
\* Read(c, r, &out) returns nil and out = v.
C1_RoundTrip ==
    [][\A t \in Threads :
          ( /\ Returns(t)
            /\ call[t].op = "Read"
            /\ lastWrite # <<>>
            /\ call[t].collection = lastWrite[1]
            /\ call[t].resource = lastWrite[2] )
          => ret'[t] = [kind |-> "ok", val |-> <<lastWrite[3]>>]]_vars

\* ------------------------------------------------------------------ C2
\* C2: a final record file c/r.json is absent or holds the complete encoding of
\* a value passed to a Write(c, r, .): every step that creates or changes one is
\* the step of such a Write and leaves the whole encoding of its value; anything
\* partial is under a .tmp name.
C2_FinalFilesComplete ==
    \A p \in DOMAIN fs : IsRegular(fs, p) => (IsRecordPath(p) => Complete(fs[p]))

C2_WrittenByWrite ==
    \A p \in DOMAIN fs' :
        (IsRecordPath(p) /\ (p \notin DOMAIN fs \/ fs[p] # fs'[p]))
        => \E t \in Threads :
              /\ call[t].op = "Write"
              /\ Steps(t)
              /\ p = <<call[t].collection, Append(call[t].resource, Json)>>
              /\ Encodable(call[t].v)
              /\ fs'[p] = FileBytes(call[t].v)

C2_Atomicity == [](C2_FinalFilesComplete) /\ [][C2_WrittenByWrite]_vars

\* A record is in place while a failed Write has left part of another value
\* under its .tmp name.
C2_Witness ==
    \E p \in DOMAIN fs :
        /\ IsRecordPath(p)
        /\ Exists(fs, AddExt(p, Tmp))
        /\ ~Complete(fs[AddExt(p, Tmp)])
        /\ fs[AddExt(p, Tmp)] # <<>>
        /\ \A t \in Threads : pc[t] = "idle"

\* ------------------------------------------------------------------ C3
\* C3: two Writes/Deletes called with the same collection are never both inside
\* the locked section, and whoever is inside holds the collection's own Lock.
C3_MutualExclusion ==
    /\ \A t, u \in Threads :
          (t # u /\ Mutating(t) /\ Mutating(u) /\ call[t].collection = call[u].collection)
          => ~(InCS(t) /\ InCS(u))
    /\ \A t \in Threads :
          InCS(t) => /\ Mutating(t)
                     /\ call[t].collection \in DOMAIN mutexes
                     /\ mutexes[call[t].collection] = mtx[t]
                     /\ mtx[t] \in locked

\* One call is between its filesystem steps while another on the same
\* collection waits at mutex.Lock().
C3_Witness ==
    \E t, u \in Threads :
        /\ t # u
        /\ call[t].collection = call[u].collection
        /\ pc[t] \in {"w_write", "d_remove"}
        /\ pc[u] = "lock"
        /\ call[u].op \in {"Write", "Delete"}

\* ------------------------------------------------------------------ C4
\* C4: a Write or Delete at mutex.Lock() goes on whenever no other call on the
\* same collection is inside its locked section, whatever is held for other
\* collections; and one at d.mutex.Lock() goes on whenever d.mutex is free.
C4_Isolation ==
    \A t \in Threads :
        /\ ( /\ pc[t] = "lock"
             /\ \A u \in Threads \ {t} :
                   InCS(u) => call[u].collection # call[t].collection )
           => ENABLED Lock(t)
        /\ (pc[t] = "gm_lock" /\ ~dmutex) => ENABLED GmLock(t)

\* A call on one collection is at mutex.Lock() while a call on another
\* collection is inside its locked section.
C4_Witness ==
    \E t, u \in Threads :
        /\ pc[t] = "lock"
        /\ InCS(u)
        /\ call[u].collection # call[t].collection
        /\ call[u].collection # <<>> /\ call[t].collection # <<>>

\* ------------------------------------------------------------------ C5
\* C5: an entry of the lock table is never removed nor replaced, and every call
\* that has looked its collection up holds the instance the table has for it.
C5_OneInstance ==
    \A t \in Threads :
        pc[t] \in {"gm_unlock", "lock"} \/ InCS(t)
        => /\ call[t].collection \in DOMAIN mutexes
           /\ mutexes[call[t].collection] = mtx[t]

C5_Kept ==
    \A c \in DOMAIN mutexes : c \in DOMAIN mutexes' /\ mutexes'[c] = mutexes[c]

C5_LockTable == [](C5_OneInstance) /\ [][C5_Kept]_vars

\* Two calls came to a collection that had no Lock yet; one made it and the
\* other, having waited for d.mutex, found that same instance.
C5_Witness ==
    \E t, u \in Threads :
        /\ t # u
        /\ call[t].collection = call[u].collection
        /\ pc[t] = "gm_unlock" /\ pc[u] \in {"lock", "w_mkdir", "d_stat"}
        /\ mtx[t] = mtx[u]
        /\ ops = 2

\* ------------------------------------------------------------------ C6
\* C6: after a Write(c, r, v) that returned nil, with no other call since, both
\* Read(c, r) and Read(c, r + ".json") return nil and v; and a Read returns
\* not-found only when neither the bare path nor the path with the extension
\* exists.
C6_DualName ==
    [][\A t \in Threads :
          (Returns(t) /\ call[t].op = "Read")
          => /\ ReadsLast(call[t].collection, call[t].resource)
                => ret'[t] = [kind |-> "ok", val |-> <<lastWrite[3]>>]
             /\ ret'[t].kind = "NotFound"
                => /\ ~Exists(fs, <<call[t].collection, call[t].resource>>)
                   /\ ~Exists(fs, <<call[t].collection, Append(call[t].resource, Json)>>)]_vars

\* ------------------------------------------------------------------ C7
\* C7: Write, Read and ReadAll called with an empty collection, and Write and
\* Read called with an empty resource, return the invalid-argument error and
\* change neither the filesystem nor the lock table.
EmptyKey(t) ==
    \/ call[t].op \in {"Write", "Read", "ReadAll"} /\ call[t].collection = <<>>
    \/ call[t].op \in {"Write", "Read"} /\ call[t].resource = <<>>

C7_EmptyKeyRejected ==
    [][\A t \in Threads :
          (EmptyKey(t) /\ Steps(t))
          => /\ Returns(t)
             /\ ret'[t] = Err("InvalidArgument")
             /\ fs' = fs
             /\ mutexes' = mutexes
             /\ locked' = locked]_vars

\* A call was rejected for its keys while the store holds a record and the lock
\* table an entry.
C7_Witness ==
    \E t \in Threads :
        /\ pc[t] = "idle"
        /\ ret[t] = Err("InvalidArgument")
        /\ DOMAIN mutexes # {}
        /\ \E p \in DOMAIN fs : IsRecordPath(p)

\* ------------------------------------------------------------------ C8
\* C8: Delete called with an empty collection returns the invalid-argument
\* error and removes nothing.
C8_DeleteEmptyCollection ==
    [][\A t \in Threads :
          (call[t].op = "Delete" /\ call[t].collection = <<>> /\ Steps(t))
          => /\ fs' = fs
             /\ Returns(t) => ret'[t] = Err("InvalidArgument")]_vars

\* ------------------------------------------------------------------ C9
\* C9: Delete(c, "") on an existing collection c returns nil, removes c's
\* directory and all that is in it and nothing else; and a ReadAll(c) after it,
\* with no Write to c meanwhile, returns not-found.
BulkDelete(t) ==
    call[t].op = "Delete" /\ call[t].collection # <<>> /\ call[t].resource = <<>>

C9_Step ==
    \A t \in Threads :
        /\ (BulkDelete(t) /\ pc[t] = "d_stat" /\ Steps(t) /\ IsDir(fs, <<call[t].collection>>))
           => pc'[t] = "d_remove"
        /\ (BulkDelete(t) /\ pc[t] = "d_remove" /\ Steps(t))
           => /\ Returns(t)
              /\ ret'[t] = Ok
              /\ DOMAIN fs' = {p \in DOMAIN fs : p = <<>> \/ p[1] # call[t].collection}
              /\ \A p \in DOMAIN fs' : fs'[p] = fs[p]
        /\ (call[t].op = "ReadAll" /\ call[t].collection \in dropped /\ Returns(t))
           => ret'[t] = Err("NotFound")

C9_BulkDelete == [][C9_Step]_vars

\* ReadAll(c) is called after Delete(c, "") removed a collection that held a
\* record, while another collection still holds one.
C9_Witness ==
    \E t \in Threads :
        /\ call[t].op = "ReadAll"
        /\ call[t].collection \in dropped
        /\ pc[t] = "ra_stat"
        /\ \E p \in DOMAIN fs : IsRecordPath(p)

\* ----------------------------------------------------------------- C10
\* C10: Delete(c, r) on an existing collection c where neither c/r nor
\* c/r.json exists returns not-found and changes nothing.
DeleteMissing(t) ==
    /\ call[t].op = "Delete"
    /\ call[t].collection # <<>> /\ call[t].resource # <<>>
    /\ pc[t] = "d_stat"
    /\ IsDir(fs, <<call[t].collection>>)
    /\ ~Exists(fs, <<call[t].collection, call[t].resource>>)
    /\ ~Exists(fs, <<call[t].collection, Append(call[t].resource, Json)>>)

C10_DeleteMissing ==
    [][\A t \in Threads :
          (DeleteMissing(t) /\ Steps(t))
          => /\ Returns(t)
             /\ ret'[t] = Err("NotFound")
             /\ fs' = fs]_vars

\* Delete is at its stat for a resource the collection does not hold, while
\* the collection holds another record.
C10_Witness ==
    \E t \in Threads :
        /\ DeleteMissing(t)
        /\ \E p \in DOMAIN fs : IsRecordPath(p) /\ p[1] = call[t].collection

\* ----------------------------------------------------------------- C13
\* C13: a Write whose value cannot be encoded changes nothing in the
\* filesystem, in any of its steps, and returns an error.
C13_EncodingFailure ==
    [][\A t \in Threads :
          (call[t].op = "Write" /\ ~Encodable(call[t].v) /\ Steps(t))
          => /\ fs' = fs
             /\ Returns(t) => ret'[t].kind # "ok"]_vars

\* ----------------------------------------------------------------- C14
\* C14: when Delete(c, r) has resolved r, bare or with the extension, to a
\* regular file and returns nil, that file is gone and nothing else has changed.
SingleDelete(t) ==
    /\ call[t].op = "Delete"
    /\ call[t].collection # <<>> /\ call[t].resource # <<>>
    /\ pc[t] = "d_remove"
    /\ IsRegular(fs, Stat(fs, DPath(t)))

C14_SingleDelete ==
    [][\A t \in Threads :
          (SingleDelete(t) /\ Returns(t) /\ ret'[t] = Ok)
          => /\ ~Exists(fs', Stat(fs, DPath(t)))
             /\ \A p \in DOMAIN fs :
                   p # Stat(fs, DPath(t)) => (p \in DOMAIN fs' /\ fs'[p] = fs[p])]_vars

\* ----------------------------------------------------------------- C15
\* C15: every step that creates, changes or removes something at or below a
\* collection's directory is the step of a call that holds that collection's
\* Lock.
Changed(p) ==
    \/ p \in DOMAIN fs /\ p \notin DOMAIN fs'
    \/ p \notin DOMAIN fs /\ p \in DOMAIN fs'
    \/ p \in DOMAIN fs /\ p \in DOMAIN fs' /\ fs[p] # fs'[p]

HoldsLockOf(t, c) ==
    /\ InCS(t)
    /\ c \in DOMAIN mutexes
    /\ mtx[t] = mutexes[c]
    /\ mtx[t] \in locked

C15_MutationsUnderLock ==
    [][\A p \in DOMAIN fs \cup DOMAIN fs' :
          (Len(p) >= 1 /\ Changed(p))
          => \E t \in Threads : Steps(t) /\ HoldsLockOf(t, p[1])]_vars

\* ----------------------------------------------------------------- C16
\* C16: d.mutex is held exactly while one goroutine is between d.mutex.Lock()
\* and the return of getOrCreateNewMutex; a goroutine waiting for or holding a
\* collection's Lock, or at a filesystem call, is not such a one.
InTable(t) == pc[t] \in {"gm_lookup", "gm_new", "gm_unlock"}

C16_TableLockNarrow ==
    /\ dmutex <=> (\E t \in Threads : InTable(t))
    /\ \A t, u \in Threads : (InTable(t) /\ InTable(u)) => t = u
    /\ \A t \in Threads : (pc[t] = "lock" \/ InCS(t)) => ~InTable(t)
    /\ (\A t \in Threads : ~InTable(t)) => ~dmutex

\* One goroutine is at a filesystem call under its collection's Lock while
\* another holds d.mutex to find its own.
C16_Witness ==
    \E t, u \in Threads :
        /\ pc[t] \in {"w_write", "d_remove"}
        /\ InTable(u)
        /\ dmutex

\* ----------------------------------------------------------------- C18
\* C18: a step of Read or ReadAll leaves the filesystem, d.mutex, the lock
\* table and every Lock as they were, and is never kept waiting.
Reading(t) == call[t].op \in {"Read", "ReadAll"}

C18_Frame ==
    \A t \in Threads :
        (Reading(t) /\ Steps(t))
        => /\ fs' = fs
           /\ dmutex' = dmutex
           /\ mutexes' = mutexes
           /\ locked' = locked
           /\ nextId' = nextId

C18_NeverBlocked ==
    \A t \in Threads :
        (Reading(t) /\ Active(t))
        => ENABLED (Entry(t) \/ RStat(t) \/ RRead(t) \/ RaStat(t) \/ RaReadDir(t) \/ RaReadFile(t))

C18_ReadsTakeNoLock == [](C18_NeverBlocked) /\ [][C18_Frame]_vars

\* A ReadAll is past its checks while a Write on the same collection is inside
\* its locked section.
C18_Witness ==
    \E t, u \in Threads :
        /\ call[t].op = "ReadAll"
        /\ pc[t] \in {"ra_readdir", "ra_readfile"}
        /\ call[u].op = "Write"
        /\ call[u].collection = call[t].collection
        /\ pc[u] \in {"w_write", "w_rename"}

\* ----------------------------------------------------------------- C20
\* C20: ReadAll never returns the content of a .tmp file as a record.
C20_OnlyCommitted ==
    [][\A t \in Threads :
          ( /\ pc[t] = "ra_readfile"
            /\ Steps(t)
            /\ IsTmpPath(Append(RaDir(t), Head(lst[t])))
            /\ IsRegular(fs, Append(RaDir(t), Head(lst[t]))) )
          => /\ recs'[t] = recs[t] \/ Returns(t)
             /\ (Returns(t) /\ ret'[t].kind = "ok") => ret'[t].val = recs[t]]_vars

\* ----------------------------------------------------------------- C12
\* C12: New on a root that exists returns nil at once, and no step of New
\* removes or changes anything the store holds.
C12_Step ==
    \A t \in Threads :
        (call[t].op = "New" /\ Steps(t))
        => /\ (pc[t] = "n_stat" /\ Exists(fs, <<>>)) => (Returns(t) /\ ret'[t] = Ok)
           /\ Exists(fs, <<>>) => fs' = fs
           /\ \A p \in DOMAIN fs : p \in DOMAIN fs' /\ fs'[p] = fs[p]

C12_IdempotentBootstrap == [][C12_Step]_vars

\* New is called again on a store that holds a record, after the first Driver
\* has been used.
C12_Witness ==
    \E t \in Threads :
        /\ call[t].op = "New"
        /\ pc[t] = "n_stat"
        /\ ops = 2
        /\ \E p \in DOMAIN fs : IsRecordPath(p)
        /\ DOMAIN mutexes # {}

\* ----------------------------------------------------------------- C19
NoWriteInProgress(k) ==
    \A t \in Threads : ~(call[t].op = "Write" /\ Record(t) = k)

\* C19: once the Writes of a record that ran together have all returned nil,
\* with no Delete called meanwhile, the record file holds the value of the Write
\* that took the collection's Lock last, and the record has no temporary file
\* left.
C19_LastWriterWins ==
    \A k \in DOMAIN lastLock :
        NoWriteInProgress(k)
        => /\ Exists(fs, FnlPath(k[1], k[2]))
           /\ fs[FnlPath(k[1], k[2])] = FileBytes(lastLock[k][1])
           /\ ~Exists(fs, TmpPath(FnlPath(k[1], k[2])))

\* Two Writes of different values to one record ran together and both have
\* returned.
C19_Witness ==
    /\ \E k \in DOMAIN lastLock : lastLock[k][2]
    /\ \A t \in Threads : pc[t] = "idle"
    /\ ops = 2

\* ----------------------------------------------------------------- C11
WrittenTo(c) == {w \in written : w[1] = c}

\* The records list and the Writes to c hold the same encodings, each as often.
SameRecords(list, c) ==
    /\ Len(list) = Cardinality(WrittenTo(c))
    /\ \A w \in WrittenTo(c) :
          Cardinality({i \in 1..Len(list) : list[i] = FileBytes(w[3])})
          = Cardinality({x \in WrittenTo(c) : FileBytes(x[3]) = FileBytes(w[3])})

\* A ReadAll of a fresh collection that has been written to, called with nothing
\* in progress, returns.
CountsFresh(t) ==
    /\ call[t].op = "ReadAll"
    /\ Returns(t)
    /\ alone
    /\ call[t].collection \in fresh
    /\ WrittenTo(call[t].collection) # {}

\* C11: after N >= 1 successful Writes of N distinct names into a fresh
\* collection c, a ReadAll(c) called with nothing in progress returns N records,
\* the encodings of the N values written, in some order.
C11_Step ==
    \A t \in Threads :
        CountsFresh(t)
        => /\ ret'[t].kind = "ok"
           /\ SameRecords(ret'[t].val, call[t].collection)

C11_ReadAllCount == [][C11_Step]_vars

\* ReadAll is about to return its second record of a collection that two Writes
\* of two names made.
C11_Witness ==
    \E t \in Threads :
        /\ call[t].op = "ReadAll"
        /\ alone
        /\ call[t].collection \in fresh
        /\ Cardinality(WrittenTo(call[t].collection)) = 2
        /\ pc[t] = "ra_readfile"
        /\ Len(recs[t]) = 1

\* ----------------------------------------------------------------- C17
InWriteOrDelete(t) == call[t].op \in {"Write", "Delete"}

\* The return of a Write or Delete leaves the Lock it took free.
C17_Released ==
    \A t \in Threads :
        (InWriteOrDelete(t) /\ Returns(t) /\ mtx[t] # NoMutex) => mtx[t] \notin locked'

\* With no Write or Delete in progress every Lock, and d.mutex, is free.
C17_AllFree ==
    (\A t \in Threads : ~InWriteOrDelete(t)) => (locked = {} /\ ~dmutex)

\* While a call is in progress some goroutine can take a step.
C17_NoDeadlock ==
    (\E t \in Threads : Active(t)) => (\E t \in Threads : ENABLED Run(t))

\* C17: under fair scheduling every Write and Delete that starts returns; its
\* return leaves the Lock it took free; no state is a deadlock; and with no
\* Write or Delete in progress every Lock is free.
C17_Termination ==
    /\ \A t \in Threads : InWriteOrDelete(t) ~> (pc[t] = "idle")
    /\ [][C17_Released]_vars
    /\ [](C17_NoDeadlock)
    /\ [](C17_AllFree)

\* A Write has returned an error after it took the Lock, and nothing is in
\* progress.
C17_Witness ==
    /\ \E t \in Threads : ret[t].kind = "EncodingError"
    /\ \A t \in Threads : pc[t] = "idle"
    /\ locked = {}
    /\ nextId >= 1
    /\ ops = 2

====
